---------------------------- MODULE Spec2Model ----------------------------
(***************************************************************************)
(* A model of rcsb.utils.io.FileLock: a lock-file based, per-instance      *)
(* reentrant lock.  Several FileLock instances share one lock path; each   *)
(* instance may be shared by several threads.                              *)
(*                                                                         *)
(* Time is counted in clock ticks.  A running acquire() reads the clock     *)
(* only as time.time() - startTime, so the model keeps that difference,    *)
(* elapsed[t], and the clock's tick advances it in every running call.     *)
(* Each step of a thread is one statement (or one `with __lockCountLock`   *)
(* block up to its file-system call) of FileLock.py.                       *)
(***************************************************************************)
EXTENDS Integers, Sequences, FiniteSets, TLC

\* ---------------------------------------------------------------- bounds
MaxCount == 2         \* no new acquire() is started once lockCount reaches this
MaxDepth == 2         \* deepest nesting of `with` scopes of one thread
NumCycles == 2        \* critical sections each worker of the counter test runs
MaxAttempts == 3      \* largest maxAttempts given to the retry decorator
MaxDelay == 2         \* largest delaySeconds given to the retry decorator
MaxMultiplier == 3    \* largest multiplier given to the retry decorator

\* ------------------------------------------------------- program constants
None == "None"
\* FileLock.__init__(defaultTimeout=5.0) and acquire(pollInterval=0.05), in ticks
DefaultTimeout == 2
PollInterval == 1

Threads == {"t1", "t2", "t3", "t4"}
Instances == {"L1", "L2", "L3"}
\* t1 and t2 share the instance L1; t3 is the only user of L2, t4 of L3.
\* All instances are built on the same lock file path.
instOf == [t \in Threads |-> IF t = "t3" THEN "L2" ELSE IF t = "t4" THEN "L3" ELSE "L1"]
\* two threads of one process and a thread of another process
Callers == {"t1", "t2", "t3"}
\* the two threads of one process that share L1
Sharers == {"t1", "t2"}
\* the threads that have their instance to themselves
SoleUsers == {"t3", "t4"}
\* the worker processes of the multi-process test, one instance each
Workers == {"t1", "t3", "t4"}

\* the timeout argument of acquire(): omitted (None), zero, positive, negative
Omitted == [given |-> FALSE, value |-> 0]
Given(v) == [given |-> TRUE, value |-> v]
TimeoutArgs == {Omitted, Given(0), Given(1), Given(-1)}

VARIABLES
  fileExists,   \* the lock file is on disk
  creator,      \* the instance whose os.open() created the file on disk (None: no file)
  fd,           \* fd[i]: __lockFileFileDescriptor of instance i, None or "fd"
  lockCount,    \* lockCount[i]: __lockCount of instance i
  mutex,        \* mutex[i]: the thread inside a `with __lockCountLock` block, or None
  pc,           \* pc[t]: the statement thread t is at
  timeout,      \* timeout[t]: local `timeout` of the running acquire()
  elapsed,      \* elapsed[t]: time.time() - startTime of the running acquire()
  sleepLeft,    \* sleepLeft[t]: ticks until the running time.sleep() returns
  force,        \* force[t]: argument of the running release()
  ctx,          \* ctx[t]: the number of `with` scopes of the lock thread t is inside
  entering,     \* entering[t]: the statement that made the running call: a kind of
                \*   `with`, or "del" for the destructor (it stays "del" afterwards)
  exc,          \* exc[t]: the exception propagating in thread t, or None
  counter,      \* the shared counter file of the multi-process test
  tmp,          \* tmp[t]: the counter value a worker has read
  cycles,       \* cycles[t]: critical sections worker t has completed
  osError,      \* osError[t]: os.remove() raised OSError in the last release() of t
  tracking,     \* whether the history variables below are kept
  countBefore,  \* countBefore[t]: lockCount of t's instance when its last acquire() began
  heldByOther,  \* heldByOther[t]: from the beginning to the end of t's last acquire()
                \*   some other instance was locked
  lockedBefore, \* lockedBefore[t]: t's instance was locked when its last acquire() began
  forcedHolds,  \* forcedHolds[t]: lockCount found by the last release(force=True) of t
                \*   that released the lock, 0 once t has called acquire() again
  released,     \* released[t]: since t's last acquire() began, and before it ended,
                \*   a release() has closed the descriptor of t's instance
  opened,       \* opened[t]: the last pass of t's last acquire() through lines 105-108
                \*   has called __doAquireLock (kept like the history variables, by
                \*   the step that makes the pass)
  wrapped       \* the running call of a function decorated with decorators.retry:
                \*   its arguments, its locals, the outcomes of the calls it has made
                \*   and the delays it has slept

fsVars == <<fileExists, creator>>
instVars == <<fd, lockCount, mutex>>
callVars == <<pc, timeout, elapsed, sleepLeft, force>>
callerVars == <<ctx, entering, exc>>
workVars == <<counter, tmp, cycles>>
histVars == <<tracking, countBefore, heldByOther, lockedBefore, forcedHolds, released>>
vars == <<fileExists, creator, fd, lockCount, mutex, pc, timeout, elapsed,
          sleepLeft, force, ctx, entering, exc, counter, tmp, cycles, osError,
          tracking, countBefore, heldByOther, lockedBefore, forcedHolds, released,
          opened, wrapped>>
\* the variables of the lock, which a call of a retry-decorated function leaves alone
lockVars == <<fileExists, creator, fd, lockCount, mutex, pc, timeout, elapsed,
              sleepLeft, force, ctx, entering, exc, counter, tmp, cycles, osError,
              tracking, countBefore, heldByOther, lockedBefore, forcedHolds, released,
              opened>>

\* no call of a retry-decorated function is running
NotWrapped ==
  [pc |-> "idle", maxAttempts |-> 0, delaySeconds |-> 0, multiplier |-> 0,
   attemptsLeft |-> 0, currentDelaySecs |-> 0, outcomes |-> <<>>, slept |-> <<>>,
   result |-> None]

\* FileLock.isLocked()
isLocked(i) == fd[i] # None

\* (mutant) `timeout if timeout is not None else ...`: zero is used as given
EffectiveTimeoutNotNone(arg) ==
  IF ~arg.given THEN DefaultTimeout ELSE arg.value

\* line 95: timeout = timeout if timeout else self.__defaultTimeout
EffectiveTimeout(arg) ==
  IF ~arg.given \/ arg.value = 0 THEN DefaultTimeout ELSE arg.value

\* The state after FileLock.__init__ (lines 57-69) of every instance, with no
\* lock file on disk; keep: whether the history variables are kept.
InitState(keep) ==
  /\ fileExists = FALSE
  /\ creator = None
  /\ fd = [i \in Instances |-> None]
  /\ lockCount = [i \in Instances |-> 0]
  /\ mutex = [i \in Instances |-> None]
  /\ pc = [t \in Threads |-> "idle"]
  /\ timeout = [t \in Threads |-> 0]
  /\ elapsed = [t \in Threads |-> 0]
  /\ sleepLeft = [t \in Threads |-> 0]
  /\ force = [t \in Threads |-> FALSE]
  /\ ctx = [t \in Threads |-> 0]
  /\ entering = [t \in Threads |-> None]
  /\ exc = [t \in Threads |-> None]
  /\ counter = 0
  /\ tmp = [t \in Threads |-> 0]
  /\ cycles = [t \in Threads |-> 0]
  /\ osError = [t \in Threads |-> FALSE]
  /\ tracking = keep
  /\ countBefore = [t \in Threads |-> 0]
  /\ heldByOther = [t \in Threads |-> FALSE]
  /\ lockedBefore = [t \in Threads |-> FALSE]
  /\ forcedHolds = [t \in Threads |-> 0]
  /\ released = [t \in Threads |-> FALSE]
  /\ opened = [t \in Threads |-> FALSE]
  /\ wrapped = NotWrapped

Init == InitState(FALSE)

\* A thread inside acquire(), after startTime = time.time() (line 102).
InAcquire(t) == pc[t] \in {"a_try", "a_set", "a_check", "a_sleep", "a_exc"}

\* Some instance other than i is locked, in the state a step leads to.
OtherLocked(i) == \E j \in Instances \ {i} : fd'[j] # None

\* The history variables, updated by every step when they are kept: a call of
\* acquire() that begins records the count it found, and whether another
\* instance is locked, and whether its own is; a running call forgets "held"
\* once no other is locked; once the call has ended the record stands until
\* the thread's next call.  A forced release that releases the lock records
\* the count it found, until the thread's next acquire().  A running call
\* records that a release() has unlocked its instance.  No step of the lock
\* touches a running call of a retry-decorated function.
Track ==
  /\ tracking' = tracking
  /\ UNCHANGED wrapped
  /\ IF tracking
     THEN /\ countBefore' = [t \in Threads |->
                 IF ~InAcquire(t) /\ pc'[t] = "a_try"
                 THEN lockCount[instOf[t]] ELSE countBefore[t]]
          /\ heldByOther' = [t \in Threads |->
                 IF ~InAcquire(t) /\ pc'[t] = "a_try" THEN OtherLocked(instOf[t])
                 ELSE IF InAcquire(t) THEN heldByOther[t] /\ OtherLocked(instOf[t])
                 ELSE heldByOther[t]]
          /\ lockedBefore' = [t \in Threads |->
                 IF ~InAcquire(t) /\ pc'[t] = "a_try"
                 THEN isLocked(instOf[t]) ELSE lockedBefore[t]]
          /\ forcedHolds' = [t \in Threads |->
                 IF pc[t] = "r_start" /\ pc'[t] = "r_remove" /\ force[t]
                 THEN lockCount[instOf[t]]
                 ELSE IF ~InAcquire(t) /\ pc'[t] = "a_try" THEN 0
                 ELSE forcedHolds[t]]
          /\ released' = [t \in Threads |->
                 IF ~InAcquire(t) /\ pc'[t] = "a_try" THEN FALSE
                 ELSE IF InAcquire(t) /\ isLocked(instOf[t]) /\ fd'[instOf[t]] = None
                 THEN TRUE
                 ELSE released[t]]
     ELSE UNCHANGED <<countBefore, heldByOther, lockedBefore, forcedHolds, released>>

\* The clock advances by one tick: time.time() - startTime grows in every
\* running acquire() and every running time.sleep() has one tick less to go.
\* A difference that has passed the call's timeout is kept at timeout + 1, and
\* it is not kept at all when the timeout is negative: line 113 reads no more.
Tick ==
  /\ elapsed' = [t \in Threads |->
                   IF InAcquire(t) /\ elapsed[t] <= timeout[t]
                   THEN elapsed[t] + 1 ELSE elapsed[t]]
  /\ sleepLeft' = [t \in Threads |->
                     IF sleepLeft[t] > 0 THEN sleepLeft[t] - 1 ELSE 0]
  /\ UNCHANGED <<fsVars, instVars, pc, timeout, force, callerVars, workVars, osError, opened>>
  /\ Track

\* ------------------------------------------------------------ FileLock
\* (mutant) os.open() without O_EXCL: an existing file is opened as well
OsOpenNotExclusive(ioError) == ~ioError

\* os.open(path, O_WRONLY | O_CREAT | O_EXCL | O_TRUNC): succeeds iff the file
\* is not there and no other I/O error (ioError) strikes.
OsOpenSucceeds(ioError) == ~fileExists /\ ~ioError

\* (mutant) the timeout test without `timeout >= 0`
TimedOutAnySign(t) == elapsed[t] > timeout[t]

\* (mutant) the timeout test never fires
TimedOutNever(t) == FALSE

\* (mutant) the timeout test with >= for >
TimedOutAtLimit(t) == timeout[t] >= 0 /\ elapsed[t] >= timeout[t]

\* line 113: timeout >= 0 and time.time() - startTime > timeout
TimedOut(t) == timeout[t] >= 0 /\ elapsed[t] > timeout[t]

\* (mutant) the reservation is not given back
NoDecrement(c) == c

\* line 121: max(0, self.__lockCount - 1)
DecrementFloor(c) == IF c - 1 > 0 THEN c - 1 ELSE 0

\* (mutant) every release() releases the file, whatever the count
MustReleaseAlways(c, f) == TRUE

\* (mutant) the force argument is ignored
MustReleaseAtZero(c, f) == c = 0

\* line 136: self.__lockCount == 0 or force
MustRelease(c, f) == c = 0 \/ f

\* acquire(timeout=arg), lines 95-102: the effective timeout, the reservation
\* under the mutex, then startTime = time.time()
acquire(t, arg) ==
  LET i == instOf[t] IN
  /\ mutex[i] = None
  /\ timeout' = [timeout EXCEPT ![t] = EffectiveTimeout(arg)]
  /\ lockCount' = [lockCount EXCEPT ![i] = @ + 1]
  /\ elapsed' = [elapsed EXCEPT ![t] = 0]
  /\ opened' = [opened EXCEPT ![t] = FALSE]
  /\ pc' = [pc EXCEPT ![t] = "a_try"]

\* (mutant) the create is attempted without the isLocked() test of line 106
AcquireTryAlways(t) ==
  LET i == instOf[t] IN
  /\ pc[t] = "a_try"
  /\ mutex[i] = None
  /\ opened' = IF tracking THEN [opened EXCEPT ![t] = TRUE] ELSE opened
  /\ \E ioError \in BOOLEAN :
       IF OsOpenSucceeds(ioError)
       THEN /\ fileExists' = TRUE
            /\ creator' = i
            /\ mutex' = [mutex EXCEPT ![i] = t]
            /\ pc' = [pc EXCEPT ![t] = "a_set"]
       ELSE /\ pc' = [pc EXCEPT ![t] = "a_check"]
            /\ UNCHANGED <<fsVars, mutex>>
  /\ UNCHANGED <<fd, lockCount, timeout, elapsed, sleepLeft, force, callerVars, workVars, osError>>
  /\ Track

\* (mutant) lines 106-108 without `with self.__lockCountLock`: the test and the
\* create do not wait for the mutex
AcquireTryNoMutex(t) ==
  LET i == instOf[t] IN
  /\ pc[t] = "a_try"
  /\ IF isLocked(i)
     THEN /\ pc' = [pc EXCEPT ![t] = "a_check"]
          /\ opened' = IF tracking THEN [opened EXCEPT ![t] = FALSE] ELSE opened
          /\ UNCHANGED <<fsVars, mutex>>
     ELSE /\ opened' = IF tracking THEN [opened EXCEPT ![t] = TRUE] ELSE opened
          /\ \E ioError \in BOOLEAN :
               IF OsOpenSucceeds(ioError)
               THEN /\ fileExists' = TRUE
                    /\ creator' = i
                    /\ mutex' = [mutex EXCEPT ![i] = t]
                    /\ pc' = [pc EXCEPT ![t] = "a_set"]
               ELSE /\ pc' = [pc EXCEPT ![t] = "a_check"]
                    /\ UNCHANGED <<fsVars, mutex>>
  /\ UNCHANGED <<fd, lockCount, timeout, elapsed, sleepLeft, force, callerVars, workVars, osError>>
  /\ Track

\* lines 105-108 and __doAquireLock (lines 144-151): under the mutex, if the
\* instance is not locked, try the exclusive create.  A failed os.open() is
\* swallowed (line 150-151).  After a successful one the thread still holds
\* the mutex and has the descriptor to assign.
AcquireTry(t) ==
  LET i == instOf[t] IN
  /\ pc[t] = "a_try"
  /\ mutex[i] = None
  /\ IF isLocked(i)
     THEN /\ pc' = [pc EXCEPT ![t] = "a_check"]
          /\ opened' = IF tracking THEN [opened EXCEPT ![t] = FALSE] ELSE opened
          /\ UNCHANGED <<fsVars, mutex>>
     ELSE /\ opened' = IF tracking THEN [opened EXCEPT ![t] = TRUE] ELSE opened
          /\ \E ioError \in BOOLEAN :
               IF OsOpenSucceeds(ioError)
               THEN /\ fileExists' = TRUE
                    /\ creator' = i
                    /\ mutex' = [mutex EXCEPT ![i] = t]
                    /\ pc' = [pc EXCEPT ![t] = "a_set"]
               ELSE /\ pc' = [pc EXCEPT ![t] = "a_check"]
                    /\ UNCHANGED <<fsVars, mutex>>
  /\ UNCHANGED <<fd, lockCount, timeout, elapsed, sleepLeft, force, callerVars, workVars, osError>>
  /\ Track

\* line 153: self.__lockFileFileDescriptor = fd, and the mutex is left
AcquireSet(t) ==
  LET i == instOf[t] IN
  /\ pc[t] = "a_set"
  /\ fd' = [fd EXCEPT ![i] = "fd"]
  /\ mutex' = [mutex EXCEPT ![i] = None]
  /\ pc' = [pc EXCEPT ![t] = "a_check"]
  /\ UNCHANGED <<fsVars, lockCount, timeout, elapsed, sleepLeft, force, callerVars, workVars, osError, opened>>
  /\ Track

\* What the caller does with the AcquireProxy that acquire() returned (line 124):
\* FileLock.__enter__ (lines 165-167) returns self and the scope is entered;
\* `with lock.acquire():` goes on to AcquireProxy.__enter__; a plain call is over.
AcquireReturn(t) ==
  /\ timeout' = [timeout EXCEPT ![t] = 0]
  /\ elapsed' = [elapsed EXCEPT ![t] = 0]
  /\ entering' = [entering EXCEPT ![t] = None]
  /\ IF entering[t] = "proxy"
     THEN /\ pc' = [pc EXCEPT ![t] = "p_enter"]
          /\ ctx' = ctx
     ELSE /\ pc' = [pc EXCEPT ![t] = "idle"]
          /\ ctx' = IF entering[t] = "with"
                    THEN [ctx EXCEPT ![t] = @ + 1]
                    ELSE ctx

\* (mutant) when the wait is over acquire() returns instead of raising
AcquireCheckSilent(t) ==
  LET i == instOf[t] IN
  /\ pc[t] = "a_check"
  /\ IF isLocked(i) \/ TimedOut(t)
     THEN /\ AcquireReturn(t)
          /\ UNCHANGED <<sleepLeft>>
     ELSE /\ pc' = [pc EXCEPT ![t] = "a_sleep"]
          /\ sleepLeft' = [sleepLeft EXCEPT ![t] = PollInterval]
          /\ UNCHANGED <<ctx, entering, timeout, elapsed>>
  /\ UNCHANGED <<fsVars, instVars, force, exc, workVars, osError, opened>>
  /\ Track

\* lines 110-118: the lock is read outside the mutex; then the timeout test
AcquireCheck(t) ==
  LET i == instOf[t] IN
  /\ pc[t] = "a_check"
  /\ IF isLocked(i)
     THEN /\ AcquireReturn(t)
          /\ UNCHANGED <<sleepLeft>>
     ELSE /\ IF TimedOut(t)
             THEN /\ pc' = [pc EXCEPT ![t] = "a_exc"]
                  /\ UNCHANGED <<sleepLeft>>
             ELSE /\ pc' = [pc EXCEPT ![t] = "a_sleep"]
                  /\ sleepLeft' = [sleepLeft EXCEPT ![t] = PollInterval]
          /\ UNCHANGED <<ctx, entering, timeout, elapsed>>
  /\ UNCHANGED <<fsVars, instVars, force, exc, workVars, osError, opened>>
  /\ Track

\* line 118: time.sleep(pollInterval) returns
AcquireWake(t) ==
  /\ pc[t] = "a_sleep"
  /\ sleepLeft[t] = 0
  /\ pc' = [pc EXCEPT ![t] = "a_try"]
  /\ UNCHANGED <<fsVars, instVars, timeout, elapsed, sleepLeft, force, callerVars, workVars, osError, opened>>
  /\ Track

\* lines 119-123: the reservation is given back and Timeout leaves acquire()
AcquireExcept(t) ==
  LET i == instOf[t] IN
  /\ pc[t] = "a_exc"
  /\ mutex[i] = None
  /\ lockCount' = [lockCount EXCEPT ![i] = DecrementFloor(@)]
  /\ exc' = [exc EXCEPT ![t] = "Timeout"]
  /\ entering' = [entering EXCEPT ![t] = None]
  /\ pc' = [pc EXCEPT ![t] = "idle"]
  /\ timeout' = [timeout EXCEPT ![t] = 0]
  /\ elapsed' = [elapsed EXCEPT ![t] = 0]
  /\ UNCHANGED <<fsVars, fd, mutex, sleepLeft, force, ctx, workVars, osError, opened>>
  /\ Track

\* The call of release(force=f).
release(t, f) ==
  /\ pc' = [pc EXCEPT ![t] = "r_start"]
  /\ force' = [force EXCEPT ![t] = f]
  /\ osError' = [osError EXCEPT ![t] = FALSE]

\* line 142: release() returns None to its caller; when the caller is __del__
\* (line 175) the instance is gone and its thread has nothing left to call
ReleaseReturn(t) ==
  /\ pc' = [pc EXCEPT ![t] = IF entering[t] = "del" THEN "gone" ELSE "idle"]
  /\ force' = [force EXCEPT ![t] = FALSE]

\* (mutant) release() without the isLocked() test of line 133
ReleaseStartUnguarded(t) ==
  LET i == instOf[t]
      c == lockCount[i] - 1
  IN
  /\ pc[t] = "r_start"
  /\ mutex[i] = None
  /\ lockCount' = [lockCount EXCEPT ![i] = c]
  /\ IF MustRelease(c, force[t])
     THEN /\ fd' = [fd EXCEPT ![i] = None]
          /\ mutex' = [mutex EXCEPT ![i] = t]
          /\ pc' = [pc EXCEPT ![t] = "r_remove"]
          /\ force' = force
     ELSE /\ ReleaseReturn(t)
          /\ UNCHANGED <<fd, mutex>>
  /\ UNCHANGED <<fsVars, timeout, elapsed, sleepLeft, callerVars, workVars, osError, opened>>
  /\ Track

\* lines 132-139 and 157-158: under the mutex, a locked instance loses one hold;
\* at zero (or when forced) the descriptor is closed and forgotten.
ReleaseStart(t) ==
  LET i == instOf[t]
      c == lockCount[i] - 1
  IN
  /\ pc[t] = "r_start"
  /\ mutex[i] = None
  /\ IF isLocked(i)
     THEN /\ lockCount' = [lockCount EXCEPT ![i] = c]
          /\ IF MustRelease(c, force[t])
             THEN /\ fd' = [fd EXCEPT ![i] = None]
                  /\ mutex' = [mutex EXCEPT ![i] = t]
                  /\ pc' = [pc EXCEPT ![t] = "r_remove"]
                  /\ force' = force
             ELSE /\ ReleaseReturn(t)
                  /\ UNCHANGED <<fd, mutex>>
     ELSE /\ ReleaseReturn(t)
          /\ UNCHANGED <<fd, lockCount, mutex>>
  /\ UNCHANGED <<fsVars, timeout, elapsed, sleepLeft, callerVars, workVars, osError, opened>>
  /\ Track

\* (mutant) the OSError of os.remove() is not caught: it leaves release(),
\* past the reset of line 140, and the `with` block gives the mutex back
ReleaseRemoveRaises(t) ==
  LET i == instOf[t] IN
  /\ pc[t] = "r_remove"
  /\ IF fileExists
     THEN /\ fileExists' = FALSE
          /\ creator' = None
          /\ lockCount' = [lockCount EXCEPT ![i] = 0]
          /\ UNCHANGED <<osError, exc>>
     ELSE /\ osError' = [osError EXCEPT ![t] = TRUE]
          /\ exc' = [exc EXCEPT ![t] = "OSError"]
          /\ UNCHANGED <<fsVars, lockCount>>
  /\ mutex' = [mutex EXCEPT ![i] = None]
  /\ ReleaseReturn(t)
  /\ UNCHANGED <<fd, timeout, elapsed, sleepLeft, ctx, entering, workVars, opened>>
  /\ Track

\* (mutant) release() closes the descriptor and leaves the file on disk
ReleaseRemoveKeepsFile(t) ==
  LET i == instOf[t] IN
  /\ pc[t] = "r_remove"
  /\ UNCHANGED <<fsVars, osError>>
  /\ lockCount' = [lockCount EXCEPT ![i] = 0]
  /\ mutex' = [mutex EXCEPT ![i] = None]
  /\ ReleaseReturn(t)
  /\ UNCHANGED <<fd, timeout, elapsed, sleepLeft, callerVars, workVars, opened>>
  /\ Track

\* lines 159-163 and 140: os.remove(path), whose OSError (the file is gone) is
\* swallowed; then the count is reset, the mutex left and release() returns
ReleaseRemove(t) ==
  LET i == instOf[t] IN
  /\ pc[t] = "r_remove"
  /\ IF fileExists
     THEN /\ fileExists' = FALSE
          /\ creator' = None
          /\ osError' = osError
     ELSE /\ osError' = [osError EXCEPT ![t] = TRUE]
          /\ UNCHANGED fsVars
  /\ lockCount' = [lockCount EXCEPT ![i] = 0]
  /\ mutex' = [mutex EXCEPT ![i] = None]
  /\ ReleaseReturn(t)
  /\ UNCHANGED <<fd, timeout, elapsed, sleepLeft, callerVars, workVars, opened>>
  /\ Track

\* One step of the code of FileLock by thread t.
LockStep(t) ==
  \/ AcquireTry(t)
  \/ AcquireSet(t)
  \/ AcquireCheck(t)
  \/ AcquireWake(t)
  \/ AcquireExcept(t)
  \/ ReleaseStart(t)
  \/ ReleaseRemove(t)

\* ------------------------------------------------------------- callers
\* A thread that is between two calls and has no exception in flight.
AtRest(t) == pc[t] = "idle" /\ exc[t] = None

\* lock.acquire(timeout=arg), not as a context manager
CallAcquire(t, arg) ==
  /\ AtRest(t)
  /\ lockCount[instOf[t]] < MaxCount
  /\ acquire(t, arg)
  /\ UNCHANGED <<fsVars, fd, mutex, sleepLeft, force, callerVars, workVars, osError>>
  /\ Track

\* lock.release(force=f)
CallRelease(t, f) ==
  /\ AtRest(t)
  /\ lockCount[instOf[t]] > -MaxCount
  /\ release(t, f)
  /\ UNCHANGED <<fsVars, instVars, timeout, elapsed, sleepLeft, callerVars, workVars, opened>>
  /\ Track

\* the caller's `except` clause catches the exception once no scope is left
Catch(t) ==
  /\ pc[t] = "idle"
  /\ exc[t] # None
  /\ ctx[t] = 0
  /\ exc' = [exc EXCEPT ![t] = None]
  /\ UNCHANGED <<fsVars, instVars, callVars, ctx, entering, workVars, osError, opened>>
  /\ Track

\* `with lock:` -> FileLock.__enter__ (lines 165-167) -> self.acquire()
WithLock(t) ==
  /\ AtRest(t)
  /\ ctx[t] < MaxDepth
  /\ acquire(t, Omitted)
  /\ entering' = [entering EXCEPT ![t] = "with"]
  /\ UNCHANGED <<fsVars, fd, mutex, sleepLeft, force, ctx, exc, workVars, osError>>
  /\ Track

\* `with lock.acquire(timeout=arg):` the call; the AcquireProxy is entered next
WithAcquire(t, arg) ==
  /\ AtRest(t)
  /\ ctx[t] < MaxDepth
  /\ acquire(t, arg)
  /\ entering' = [entering EXCEPT ![t] = "proxy"]
  /\ UNCHANGED <<fsVars, fd, mutex, sleepLeft, force, ctx, exc, workVars, osError>>
  /\ Track

\* (mutant) entering the proxy acquires again, as FileLock.__enter__ would
ProxyEnterAcquires(t) ==
  /\ pc[t] = "p_enter"
  /\ acquire(t, Omitted)
  /\ entering' = [entering EXCEPT ![t] = "with"]
  /\ UNCHANGED <<fsVars, fd, mutex, sleepLeft, force, ctx, exc, workVars, osError>>
  /\ Track

\* AcquireProxy.__enter__ (lines 36-37): return self.lock, nothing else
ProxyEnter(t) ==
  /\ pc[t] = "p_enter"
  /\ pc' = [pc EXCEPT ![t] = "idle"]
  /\ ctx' = [ctx EXCEPT ![t] = @ + 1]
  /\ UNCHANGED <<fsVars, instVars, timeout, elapsed, sleepLeft, force, entering, exc, workVars, osError, opened>>
  /\ Track

\* the body of the innermost scope raises
BodyRaise(t) ==
  /\ AtRest(t)
  /\ ctx[t] > 0
  /\ exc' = [exc EXCEPT ![t] = "Exception"]
  /\ UNCHANGED <<fsVars, instVars, callVars, ctx, entering, workVars, osError, opened>>
  /\ Track

\* (mutant) __exit__ releases only when the scope ends without an exception
ScopeExitSkipsOnException(t) ==
  /\ pc[t] = "idle"
  /\ ctx[t] > 0
  /\ ctx' = [ctx EXCEPT ![t] = @ - 1]
  /\ IF exc[t] = None
     THEN release(t, FALSE)
     ELSE UNCHANGED <<pc, force, osError>>
  /\ UNCHANGED <<fsVars, instVars, timeout, elapsed, sleepLeft, entering, exc, workVars, opened>>
  /\ Track

\* FileLock.__exit__ (lines 169-171) and AcquireProxy.__exit__ (lines 39-41):
\* the innermost scope is left, by its end or by an exception on its way out,
\* and release() is called; returning None does not stop the exception.
ScopeExit(t) ==
  /\ pc[t] = "idle"
  /\ ctx[t] > 0
  /\ ctx' = [ctx EXCEPT ![t] = @ - 1]
  /\ release(t, FALSE)
  /\ UNCHANGED <<fsVars, instVars, timeout, elapsed, sleepLeft, entering, exc, workVars, opened>>
  /\ Track

\* Threads calling acquire() and release() in any order, with any arguments.
Next ==
  \/ Tick
  \/ \E t \in Callers : LockStep(t)
  \/ \E t \in Callers, arg \in TimeoutArgs : CallAcquire(t, arg)
  \/ \E t \in Callers, f \in BOOLEAN : CallRelease(t, f)
  \/ \E t \in Callers : Catch(t)

Spec == Init /\ [][Next]_vars

\* The two threads sharing L1, calls in any order, every create free to fail,
\* under the scheduling the termination of a call rests on:
\* the clock advances and a running time.sleep() returns (Tick), and a thread
\* inside acquire() or release() goes on running: it takes its next step, and
\* when that step waits for __lockCountLock it gets the mutex at one of the
\* times the mutex is free.  Callers are free never to call again.
Fairness ==
  /\ WF_vars(Tick)
  /\ \A t \in Sharers : SF_vars(LockStep(t))

NextLive ==
  \/ Tick
  \/ \E t \in Sharers : LockStep(t)
  \/ \E t \in Sharers, arg \in TimeoutArgs : CallAcquire(t, arg)
  \/ \E t \in Sharers, f \in BOOLEAN : CallRelease(t, f)
  \/ \E t \in Sharers : Catch(t)

SpecLive == Init /\ [][NextLive]_vars /\ Fairness

\* Threads using the lock only as a context manager, nested up to MaxDepth.
NextScoped ==
  \/ Tick
  \/ \E t \in Callers : LockStep(t)
  \/ \E t \in Callers : WithLock(t)
  \/ \E t \in Callers, arg \in TimeoutArgs : WithAcquire(t, arg)
  \/ \E t \in Callers : ProxyEnter(t)
  \/ \E t \in Callers : BodyRaise(t)
  \/ \E t \in Callers : ScopeExit(t)
  \/ \E t \in Callers : Catch(t)

SpecScoped == Init /\ [][NextScoped]_vars

\* Two threads sharing L1: Paired uses it through with-statements only, and
\* Unpaired calls release() without ever having called acquire().
Paired == "t1"
Unpaired == "t2"

NextOverRelease ==
  \/ Tick
  \/ \E t \in {Paired, Unpaired} : LockStep(t)
  \/ WithLock(Paired)
  \/ \E arg \in TimeoutArgs : WithAcquire(Paired, arg)
  \/ ProxyEnter(Paired)
  \/ ScopeExit(Paired)
  \/ Catch(Paired)
  \/ CallRelease(Unpaired, FALSE)

SpecOverRelease == Init /\ [][NextOverRelease]_vars

\* The lock file is deleted by someone else (rm, a cleanup job).
OutOfBandDelete ==
  /\ fileExists
  /\ fileExists' = FALSE
  /\ creator' = None
  /\ UNCHANGED <<instVars, callVars, callerVars, workVars, osError, opened>>
  /\ Track

\* Two instances with one caller each, calls in any order, and the lock file
\* may be deleted out of band.
NextOutOfBand ==
  \/ Tick
  \/ OutOfBandDelete
  \/ \E t \in SoleUsers : LockStep(t)
  \/ \E t \in SoleUsers, arg \in TimeoutArgs : CallAcquire(t, arg)
  \/ \E t \in SoleUsers, f \in BOOLEAN : CallRelease(t, f)
  \/ \E t \in SoleUsers : Catch(t)

SpecOutOfBand == Init /\ [][NextOutOfBand]_vars

\* Two instances with one caller each, calls in any order, history kept.
InitTimeout == InitState(TRUE)

NextTimeout ==
  \/ Tick
  \/ \E t \in SoleUsers : LockStep(t)
  \/ \E t \in SoleUsers, arg \in TimeoutArgs : CallAcquire(t, arg)
  \/ \E t \in SoleUsers, f \in BOOLEAN : CallRelease(t, f)
  \/ \E t \in SoleUsers : Catch(t)

SpecTimeout == InitTimeout /\ [][NextTimeout]_vars

\* (mutant) the destructor releases without force
DelUnforced(t) ==
  /\ AtRest(t)
  /\ release(t, FALSE)
  /\ entering' = [entering EXCEPT ![t] = "del"]
  /\ UNCHANGED <<fsVars, instVars, timeout, elapsed, sleepLeft, ctx, exc, workVars, opened>>
  /\ Track

\* FileLock.__del__ (lines 173-175): the last reference to the instance of t,
\* its only user, is dropped between two calls, and self.release(force=True)
\* runs.
Del(t) ==
  /\ AtRest(t)
  /\ release(t, TRUE)
  /\ entering' = [entering EXCEPT ![t] = "del"]
  /\ UNCHANGED <<fsVars, instVars, timeout, elapsed, sleepLeft, ctx, exc, workVars, opened>>
  /\ Track

\* Two instances with one caller each, calls in any order; either instance
\* may be destroyed between two calls.  History kept.
NextDel ==
  \/ Tick
  \/ \E t \in SoleUsers : LockStep(t)
  \/ \E t \in SoleUsers, arg \in TimeoutArgs : CallAcquire(t, arg)
  \/ \E t \in SoleUsers, f \in BOOLEAN : CallRelease(t, f)
  \/ \E t \in SoleUsers : Catch(t)
  \/ \E t \in SoleUsers : Del(t)

SpecDel == InitTimeout /\ [][NextDel]_vars

\* Two threads sharing L1, history kept: Unpaired makes plain acquire() calls
\* with any timeout and plain release() calls; Paired acquires with the
\* default timeout and releases, forced or not.
NextShared ==
  \/ Tick
  \/ \E t \in Sharers : LockStep(t)
  \/ CallAcquire(Paired, Omitted)
  \/ \E f \in BOOLEAN : CallRelease(Paired, f)
  \/ \E arg \in TimeoutArgs : CallAcquire(Unpaired, arg)
  \/ CallRelease(Unpaired, FALSE)
  \/ \E t \in Sharers : Catch(t)

SpecShared == InitTimeout /\ [][NextShared]_vars

\* ------------------------------------------------- the multi-process test
\* proc1 (testFileLock.py lines 196-198): the next `with lock1:` of a worker
WorkerEnter(t) ==
  /\ cycles[t] < NumCycles
  /\ ctx[t] = 0
  /\ WithLock(t)

\* inside the scope the worker reads the shared counter ...
WorkRead(t) ==
  /\ AtRest(t)
  /\ ctx[t] = 1
  /\ tmp' = [tmp EXCEPT ![t] = counter]
  /\ pc' = [pc EXCEPT ![t] = "w_write"]
  /\ UNCHANGED <<fsVars, instVars, timeout, elapsed, sleepLeft, force, callerVars,
                 counter, cycles, osError, opened>>
  /\ Track

\* ... and writes it back, one higher
WorkWrite(t) ==
  /\ pc[t] = "w_write"
  /\ counter' = tmp[t] + 1
  /\ tmp' = [tmp EXCEPT ![t] = 0]
  /\ cycles' = [cycles EXCEPT ![t] = @ + 1]
  /\ pc' = [pc EXCEPT ![t] = "w_exit"]
  /\ UNCHANGED <<fsVars, instVars, timeout, elapsed, sleepLeft, force, callerVars, osError, opened>>
  /\ Track

\* the end of the `with lock1:` block: FileLock.__exit__ (lines 169-171)
WorkerExit(t) ==
  /\ pc[t] = "w_exit"
  /\ ctx' = [ctx EXCEPT ![t] = @ - 1]
  /\ release(t, FALSE)
  /\ UNCHANGED <<fsVars, instVars, timeout, elapsed, sleepLeft, entering, exc, workVars, opened>>
  /\ Track

\* a Timeout leaves proc1: the worker is over
WorkerFail(t) ==
  /\ pc[t] = "idle"
  /\ exc[t] # None
  /\ pc' = [pc EXCEPT ![t] = "failed"]
  /\ UNCHANGED <<fsVars, instVars, timeout, elapsed, sleepLeft, force, callerVars, workVars, osError, opened>>
  /\ Track

\* Worker processes, each with its own instance, each running NumCycles
\* critical sections on the shared counter.
NextCounter ==
  \/ Tick
  \/ \E t \in Workers : LockStep(t)
  \/ \E t \in Workers : WorkerEnter(t)
  \/ \E t \in Workers : WorkRead(t)
  \/ \E t \in Workers : WorkWrite(t)
  \/ \E t \in Workers : WorkerExit(t)
  \/ \E t \in Workers : WorkerFail(t)

SpecCounter == Init /\ [][NextCounter]_vars

\* ------------------------------------------------------ holder and waiters
\* Three instances of one path, one thread each: Holder runs up to NumCycles
\* `with lock:` blocks, and each of Waiters may call acquire(timeout=-1), once.
Holder == "t3"
Waiters == {"t1", "t4"}

\* the waiter's pass through lines 105-108 in which os.open() creates the file
CreateSucceeds(t) == AcquireTry(t) /\ pc'[t] = "a_set"

NextWait ==
  \/ Tick
  \/ \E t \in Waiters \cup {Holder} : LockStep(t)
  \/ WorkerEnter(Holder)
  \/ WorkRead(Holder)
  \/ WorkWrite(Holder)
  \/ WorkerExit(Holder)
  \/ WorkerFail(Holder)
  \/ \E t \in Waiters : lockCount[instOf[t]] = 0 /\ CallAcquire(t, Given(-1))

\* Fair scheduling: the clock advances and sleeps return; every thread inside
\* a call of FileLock goes on running (each instance has one thread, so no
\* step waits for the mutex); the holder, once inside its block, goes on to
\* leave it; and no I/O error strikes a waiter's os.open() for ever: of the
\* attempts it makes while the path is free, one creates the file.
FairnessWait ==
  /\ WF_vars(Tick)
  /\ \A t \in Waiters \cup {Holder} : WF_vars(LockStep(t))
  /\ WF_vars(WorkRead(Holder))
  /\ WF_vars(WorkWrite(Holder))
  /\ WF_vars(WorkerExit(Holder))
  /\ \A t \in Waiters : SF_vars(CreateSucceeds(t))

SpecWait == Init /\ [][NextWait]_vars /\ FairnessWait

\* The two threads sharing L1, calls in any order, and the lock file may be
\* deleted out of band.
NextSingle ==
  \/ Tick
  \/ OutOfBandDelete
  \/ \E t \in Sharers : LockStep(t)
  \/ \E t \in Sharers, arg \in TimeoutArgs : CallAcquire(t, arg)
  \/ \E t \in Sharers, f \in BOOLEAN : CallRelease(t, f)
  \/ \E t \in Sharers : Catch(t)

SpecSingle == Init /\ [][NextSingle]_vars

\* ------------------------------------------------------- decorators.retry
\* What one call of the decorated function does: it returns a value, raises
\* targetException, or raises an exception that is not targetException.
Outcomes == {"returns", "targetException", "otherException"}

\* (mutant) the handler sleeps and counts the attempt but keeps the delay as it is
RetryExceptFixedDelay(w) ==
  [w EXCEPT !.slept = Append(@, w.currentDelaySecs),
            !.attemptsLeft = @ - 1]

\* lines 129-134: the handler of targetException inside the loop:
\* time.sleep(currentDelaySecs); attemptsLeft -= 1; currentDelaySecs *= multiplier
RetryExcept(w) ==
  [w EXCEPT !.slept = Append(@, w.currentDelaySecs),
            !.attemptsLeft = @ - 1,
            !.currentDelaySecs = @ * w.multiplier]

\* lines 121-123: wrapped(*args, **kwargs) begins, under the decorator's arguments
RetryCall(m, d, k) ==
  /\ wrapped.pc = "idle"
  /\ wrapped' = [pc |-> "loop", maxAttempts |-> m, delaySeconds |-> d, multiplier |-> k,
                 attemptsLeft |-> m, currentDelaySecs |-> d, outcomes |-> <<>>,
                 slept |-> <<>>, result |-> None]
  /\ UNCHANGED lockVars

\* lines 124-134: one pass of `while attemptsLeft > 1`: the function is called;
\* its value is returned, an exception that is not targetException propagates,
\* and targetException is handled
RetryAttempt(o) ==
  /\ wrapped.pc = "loop"
  /\ wrapped.attemptsLeft > 1
  /\ LET w == [wrapped EXCEPT !.outcomes = Append(@, o)] IN
       wrapped' = IF o = "returns" THEN [w EXCEPT !.pc = "done", !.result = "value"]
                  ELSE IF o = "otherException"
                  THEN [w EXCEPT !.pc = "done", !.result = "raised"]
                  ELSE RetryExcept(w)
  /\ UNCHANGED lockVars

\* lines 135-140: the call after the loop: its value is returned, targetException
\* gives defaultValue, any other exception propagates
RetryFinal(o) ==
  /\ wrapped.pc = "loop"
  /\ wrapped.attemptsLeft <= 1
  /\ wrapped' = [wrapped EXCEPT !.pc = "done",
                                !.outcomes = Append(@, o),
                                !.result = IF o = "returns" THEN "value"
                                           ELSE IF o = "otherException" THEN "raised"
                                           ELSE "defaultValue"]
  /\ UNCHANGED lockVars

\* the caller has the result; the next call of the decorated function may begin
RetryReturn ==
  /\ wrapped.pc = "done"
  /\ wrapped' = NotWrapped
  /\ UNCHANGED lockVars

\* Calls of a function decorated with retry(targetException, maxAttempts,
\* delaySeconds, multiplier, defaultValue), one after the other, under every
\* choice of the arguments within the bounds and every outcome of each call.
NextRetry ==
  \/ \E m \in 0..MaxAttempts, d \in 0..MaxDelay, k \in 1..MaxMultiplier : RetryCall(m, d, k)
  \/ \E o \in Outcomes : RetryAttempt(o)
  \/ \E o \in Outcomes : RetryFinal(o)
  \/ RetryReturn

SpecRetry == Init /\ [][NextRetry]_vars

\* ---------------------------------------------------------------- claims
TypeOK ==
  /\ fileExists \in BOOLEAN
  /\ creator \in Instances \cup {None}
  /\ fd \in [Instances -> {None, "fd"}]
  /\ lockCount \in [Instances -> Int]
  /\ mutex \in [Instances -> Threads \cup {None}]

LockedInstances == {i \in Instances : isLocked(i)}

\* C1: with no out-of-band change to the lock file, under every interleaving
\* of acquire() and release() calls (forced or not) on instances of one path,
\* at most one instance is locked at any instant.
C1_MutualExclusion == Cardinality(LockedInstances) <= 1

\* one instance is locked and a thread of another instance is waiting for it
C1_Witness ==
  /\ isLocked("L1")
  /\ pc["t3"] = "a_sleep"
  /\ fileExists

\* A thread past acquire() and before its release(): inside a `with` scope of
\* the lock, or with acquire() returned and the proxy about to be entered.
InCriticalSection(t) == ctx[t] > 0 \/ pc[t] = "p_enter"

\* C2 as stated: at most one thread is past acquire() and before its release()
\* at any instant, also among threads sharing one instance.
C2_Original == Cardinality({t \in Threads : InCriticalSection(t)}) <= 1

\* C2, amended: all threads that are past acquire() and before their release()
\* at one instant use the same instance; at most one instance has threads in
\* its critical section.
C2_Amended == Cardinality({instOf[t] : t \in {u \in Threads : InCriticalSection(u)}}) <= 1

\* two threads sharing L1 are in the critical section while t3 waits for L2
C2_Witness ==
  /\ InCriticalSection("t1")
  /\ InCriticalSection("t2")
  /\ pc["t3"] \in {"a_check", "a_sleep"}

\* C3: for the only caller of an instance, with N nested acquisitions, a
\* release() that leaves holds outstanding returns with the instance locked,
\* and the release() of the last hold returns with it unlocked.
C3_Reentrancy ==
  [][\A t \in SoleUsers :
       (pc[t] \in {"r_start", "r_remove"} /\ pc'[t] = "idle")
         => (isLocked(instOf[t])' <=> ctx[t] > 0)]_vars

\* the first release() of MaxDepth nested holds is running
C3_Witness ==
  /\ pc["t3"] = "r_start"
  /\ ctx["t3"] = MaxDepth - 1
  /\ ctx["t3"] > 0
  /\ lockCount["L2"] = MaxDepth
  /\ isLocked("L2")

\* C4: an acquire() with a positive timeout, on an instance with one caller,
\* during all of which another instance was locked, ends by raising Timeout;
\* as it ends the instance is unlocked, its lockCount is what it was before
\* the call, the other instance is still locked and the lock file exists.
C4_TimeoutOutcome ==
  [][\A t \in SoleUsers :
       (InAcquire(t) /\ ~InAcquire(t)' /\ timeout[t] > 0 /\ heldByOther'[t])
         => /\ pc[t] = "a_exc"
            /\ pc'[t] = "idle"
            /\ exc'[t] = "Timeout"
            /\ fd'[instOf[t]] = None
            /\ lockCount'[instOf[t]] = countBefore[t]
            /\ \E j \in Instances \ {instOf[t]} : fd'[j] # None
            /\ fileExists']_vars

\* Timeout has left the acquire() of t3 while L3 was locked all along
C4_Witness ==
  /\ exc["t3"] = "Timeout"
  /\ pc["t3"] = "idle"
  /\ heldByOther["t3"]
  /\ isLocked("L3")
  /\ ~isLocked("L2")

\* C5: acquire() ends in one of two ways: it returns, from the test of line
\* 110 having found the instance locked, with no exception; or Timeout is
\* raised from the handler of lines 119-123.
C5_AcquireNeverSilent ==
  [][\A t \in Callers :
       (InAcquire(t) /\ ~InAcquire(t)')
         => \/ /\ pc[t] = "a_check"
               /\ isLocked(instOf[t])
               /\ pc'[t] = "idle"
               /\ exc'[t] = None
            \/ /\ pc[t] = "a_exc"
               /\ pc'[t] = "idle"
               /\ exc'[t] = "Timeout"]_vars

\* one call is about to return with the lock, another is about to raise
C5_Witness ==
  /\ pc["t1"] = "a_check"
  /\ isLocked("L1")
  /\ pc["t3"] = "a_exc"

\* C6: for the only caller of an instance, every scope that is left, by its
\* end or by an exception, starts exactly one release(); once the outermost
\* scope is left and that release() has returned the instance is unlocked,
\* also while the exception is going on its way out.
C6_ReleaseOnUnwind ==
  /\ [](\A t \in SoleUsers :
          (pc[t] = "idle" /\ ctx[t] = 0)
            => (~isLocked(instOf[t]) /\ lockCount[instOf[t]] = 0))
  /\ [][\A t \in SoleUsers :
          ctx'[t] < ctx[t] => (ctx'[t] = ctx[t] - 1 /\ pc'[t] = "r_start")]_vars

\* an exception raised in a scope of t3 has left the outermost scope
C6_Witness ==
  /\ exc["t3"] = "Exception"
  /\ pc["t3"] = "idle"
  /\ ctx["t3"] = 0
  /\ ~isLocked("L2")

\* C7: for the only caller of an instance, lockCount equals the number of
\* scopes it is inside, for `with lock:` and for `with lock.acquire():`;
\* between the return of acquire() and the entry of the proxy it is one more,
\* and entering the proxy leaves the lock alone.
C7_OnePairPerScope ==
  \A t \in SoleUsers :
    /\ pc[t] = "idle" => lockCount[instOf[t]] = ctx[t]
    /\ pc[t] = "p_enter" => (lockCount[instOf[t]] = ctx[t] + 1 /\ isLocked(instOf[t]))

\* t3 is inside two scopes, the inner one entered through the proxy or not
C7_Witness ==
  /\ pc["t3"] = "idle"
  /\ exc["t3"] = None
  /\ ctx["t3"] = 2
  /\ lockCount["L2"] = 2

\* C8: release(), forced or not, that finds its instance unlocked returns
\* without raising and leaves lockCount, the descriptor and the lock file as
\* they are.
C8_ReleaseIdempotent ==
  [][\A t \in Callers :
       (pc[t] = "r_start" /\ pc'[t] # "r_start" /\ ~isLocked(instOf[t]))
         => /\ pc'[t] = "idle"
            /\ exc'[t] = None
            /\ lockCount' = lockCount
            /\ fd' = fd
            /\ fileExists' = fileExists
            /\ creator' = creator]_vars

\* a forced release() on the unlocked L1 while t2 waits in acquire() on L1 and
\* the lock file exists because L2 holds it
C8_Witness ==
  /\ pc["t1"] = "r_start"
  /\ force["t1"]
  /\ ~isLocked("L1")
  /\ pc["t2"] = "a_sleep"
  /\ lockCount["L1"] = 1
  /\ isLocked("L2")
  /\ fileExists

AllWorkersDone ==
  \A w \in Workers : cycles[w] = NumCycles /\ pc[w] = "idle" /\ ctx[w] = 0 /\ exc[w] = None

\* the critical sections completed so far, over all workers
RECURSIVE SumCycles(_)
SumCycles(W) ==
  IF W = {} THEN 0
  ELSE LET w == CHOOSE x \in W : TRUE IN cycles[w] + SumCycles(W \ {w})

\* C9: no update of the shared counter is lost: at every instant it equals the
\* number of critical sections completed, so once every worker process has
\* completed its NumCycles critical sections (none of its acquisitions timed
\* out) it equals the number of workers times NumCycles.
C9_NoLostUpdates ==
  /\ counter = SumCycles(Workers)
  /\ AllWorkersDone => counter = Cardinality(Workers) * NumCycles

\* all workers are done
C9_Witness == AllWorkersDone /\ counter = Cardinality(Workers) * NumCycles

\* C10: a release() that has closed the descriptor and finds the lock file
\* gone (deleted out of band) returns without raising, with the instance
\* unlocked and lockCount 0.
C10_ReleaseMissingFile ==
  [][\A t \in SoleUsers :
       (pc[t] = "r_remove" /\ ~fileExists /\ pc'[t] # "r_remove")
         => /\ pc'[t] = "idle"
            /\ exc'[t] = None
            /\ osError'[t]
            /\ ~isLocked(instOf[t])'
            /\ lockCount'[instOf[t]] = 0]_vars

\* a release() of t3 has swallowed the OSError of os.remove()
C10_Witness ==
  /\ osError["t3"]
  /\ pc["t3"] = "idle"
  /\ exc["t3"] = None
  /\ ~isLocked("L2")
  /\ lockCount["L2"] = 0

\* No call of acquire() or release() is running on instance i.
BetweenCalls(i) ==
  \A t \in Threads : instOf[t] = i => pc[t] \in {"idle", "p_enter"}

\* C11: lockCount > 0 if and only if the descriptor is present, under any
\* interleaving of acquire(), release() and Timeout by the threads sharing the
\* instance; stated for the states between calls, the reservation of line 98
\* coming before the create inside acquire().
C11_HoldCountHandle ==
  \A i \in Instances : BetweenCalls(i) => (lockCount[i] > 0 <=> isLocked(i))

\* C12: lockCount is never negative, in every state reachable by any
\* interleaving of acquire(), release(), release(force=True) and Timeout by
\* the threads sharing one instance.
C12_NonNegative == \A i \in Instances : lockCount[i] >= 0

\* Every acquire() of a thread of instance i has been matched by its release()
\* or has raised Timeout: no call is running and no scope is open.
AllMatched(i) ==
  \A t \in Threads : instOf[t] = i => (pc[t] = "idle" /\ ctx[t] = 0)

\* C13: for threads sharing one instance through paired acquire()/release()
\* without force, once every acquire() has been matched by its release() or
\* has raised Timeout, the instance is unlocked, its lockCount is 0 and the
\* lock file it created is removed.
C13_QuiescentRelease ==
  \A i \in Instances :
    AllMatched(i) => (~isLocked(i) /\ lockCount[i] = 0 /\ creator # i)

\* C14: when the exclusive create fails for another reason than the file
\* being there (the instance is unlocked, no lock file exists, and the attempt
\* of lines 105-108 leaves none), acquire() ends at once with that I/O error.
C14_CreateErrorSurfaced ==
  [][\A t \in Callers :
       (/\ pc[t] = "a_try"
        /\ pc'[t] # "a_try"
        /\ ~isLocked(instOf[t])
        /\ ~fileExists
        /\ ~fileExists')
         => (pc'[t] = "idle" /\ exc'[t] \notin {None, "Timeout"})]_vars

\* C15: an acquire() whose timeout is negative never raises Timeout, however
\* long another instance holds the lock path: it never reaches the handler of
\* lines 119-123, and it ends only by returning from the test of line 110
\* with the instance locked.
C15_InfiniteWait ==
  [][\A t \in Callers :
       (InAcquire(t) /\ timeout[t] < 0)
         => /\ pc'[t] # "a_exc"
            /\ exc'[t] = None
            /\ ~InAcquire(t)' => (pc[t] = "a_check" /\ isLocked(instOf[t]))]_vars

\* t3 waits with a negative timeout, asleep after a failed attempt, while L1
\* holds the lock path
C15_Witness ==
  /\ pc["t3"] = "a_sleep"
  /\ timeout["t3"] < 0
  /\ isLocked("L1")
  /\ fileExists

\* C16: with the clock advancing and every sleep returning, every acquire()
\* whose effective timeout is >= 0 ends, by returning or by raising Timeout.
C16_BoundedWaitEnds ==
  \A t \in Sharers : (InAcquire(t) /\ timeout[t] >= 0) ~> ~InAcquire(t)

\* the default timeout of t2's call has passed, every create having failed,
\* and the call is about to end by Timeout; t1 waits on with no timeout
C16_Witness ==
  /\ pc["t2"] = "a_exc"
  /\ timeout["t2"] = DefaultTimeout
  /\ elapsed["t2"] > timeout["t2"]
  /\ pc["t1"] = "a_sleep"
  /\ timeout["t1"] < 0

\* C17: for the only caller of an instance, a release(force=True) that finds
\* the instance locked, with any number of holds outstanding, closes the
\* descriptor, removes the lock file and returns with lockCount 0; every
\* release() after it, until the next acquire(), returns having changed
\* nothing.
C17_ForcedRelease ==
  [][\A t \in SoleUsers :
       LET i == instOf[t] IN
       /\ (pc[t] = "r_start" /\ force[t] /\ isLocked(i) /\ pc'[t] # "r_start")
            => (pc'[t] = "r_remove" /\ fd'[i] = None)
       /\ (pc[t] = "r_remove" /\ force[t] /\ pc'[t] # "r_remove")
            => /\ pc'[t] = "idle"
               /\ exc'[t] = None
               /\ fd'[i] = None
               /\ lockCount'[i] = 0
               /\ fileExists /\ creator = i
               /\ ~fileExists'
       /\ (pc[t] = "r_start" /\ forcedHolds[t] > 0 /\ pc'[t] # "r_start")
            => /\ pc'[t] = "idle"
               /\ exc'[t] = None
               /\ ~isLocked(i)
               /\ lockCount[i] = 0
               /\ UNCHANGED <<fd, lockCount, fileExists, creator>>]_vars

\* a release() of t3 is running after its forced release of MaxCount holds
C17_Witness ==
  /\ pc["t3"] = "r_start"
  /\ ~force["t3"]
  /\ forcedHolds["t3"] = MaxCount
  /\ MaxCount > 1

\* C18: when an instance is destroyed while locked, with any lockCount >= 1,
\* the forced release runs: the descriptor is closed, the lock file the
\* instance created is removed, and once the destructor is over nothing of
\* the instance is left on the path, so another instance's create succeeds.
\* Destroying an unlocked instance leaves the disk as it is.
C18_DestructorCleanup ==
  /\ [](\A t \in SoleUsers :
          pc[t] = "gone"
            => (~isLocked(instOf[t]) /\ lockCount[instOf[t]] = 0 /\ creator # instOf[t]))
  /\ [][\A t \in SoleUsers :
          LET i == instOf[t] IN
          (entering[t] = "del" /\ pc'[t] # pc[t])
            => /\ (pc[t] = "r_start" /\ isLocked(i))
                    => (pc'[t] = "r_remove" /\ fd'[i] = None)
               /\ pc[t] = "r_remove"
                    => /\ pc'[t] = "gone"
                       /\ exc'[t] = None
                       /\ fileExists /\ creator = i
                       /\ ~fileExists'
               /\ (pc[t] = "r_start" /\ ~isLocked(i))
                    => (pc'[t] = "gone" /\ UNCHANGED <<fileExists, creator>>)]_vars

\* the destructor of L2, destroyed with MaxCount holds, has closed the
\* descriptor and is about to remove the file, while t4 waits for the path
C18_Witness ==
  /\ pc["t3"] = "r_remove"
  /\ entering["t3"] = "del"
  /\ forcedHolds["t3"] = MaxCount
  /\ lockCount["L2"] = MaxCount - 1
  /\ pc["t4"] = "a_sleep"
  /\ ~isLocked("L3")

\* C19: for the only caller of an instance, an acquire() that finds the
\* instance locked adds one to lockCount and does nothing else: no os.open(),
\* no change of the descriptor or of the lock file, no sleep, no Timeout; it
\* returns with lockCount one more than it found.
C19_ReentrantAcquire ==
  [][\A t \in SoleUsers :
       LET i == instOf[t] IN
       /\ (~InAcquire(t) /\ pc'[t] = "a_try" /\ isLocked(i))
            => /\ lockCount'[i] = lockCount[i] + 1
               /\ UNCHANGED <<fd, fileExists, creator>>
       /\ (InAcquire(t) /\ lockedBefore[t] /\ pc'[t] # pc[t])
            => /\ UNCHANGED <<fd, lockCount, fileExists, creator>>
               /\ ~opened'[t]
               /\ pc'[t] \notin {"a_set", "a_sleep", "a_exc"}
               /\ exc'[t] = None
               /\ ~InAcquire(t)' => lockCount'[i] = countBefore[t] + 1]_vars

\* the second acquire() of t3 is at the test of line 110, no os.open() made
C19_Witness ==
  /\ pc["t3"] = "a_check"
  /\ lockedBefore["t3"]
  /\ countBefore["t3"] = 1
  /\ lockCount["L2"] = 2
  /\ ~opened["t3"]
  /\ isLocked("L2")

\* C20: with paired acquire()/release() and no forced release, a thread that
\* is past the return of its acquire() and before its own release() finds its
\* instance locked and the lock file, created by that instance, on disk,
\* whatever the other threads sharing the instance do.
C20_HoldStable ==
  \A t \in Callers :
    InCriticalSection(t)
      => (isLocked(instOf[t]) /\ fileExists /\ creator = instOf[t])

\* t1 is inside its scope while the release() of t2, which has left its last
\* scope of the same instance, is running
C20_Witness ==
  /\ pc["t1"] = "idle"
  /\ ctx["t1"] = 1
  /\ pc["t2"] = "r_start"
  /\ ctx["t2"] = 0
  /\ lockCount["L1"] = 2

\* C21 as stated: in every reachable state the lock file exists if and only
\* if exactly one instance is locked.
C21_Original == fileExists <=> Cardinality(LockedInstances) = 1

\* Instance i owns the lock file: it is locked, or one of its threads is
\* between the os.open() that created the file and the assignment of line 153,
\* or between the close of lines 157-158 and the os.remove() of line 160.
Owns(i) ==
  \/ isLocked(i)
  \/ \E t \in Threads : instOf[t] = i /\ pc[t] \in {"a_set", "r_remove"}

\* C21, amended: at most one instance owns the lock file, the file exists if
\* and only if some instance owns it and then that instance created it, and a
\* locked instance is an owner whose file is on disk.
C21_Amended ==
  /\ Cardinality({i \in Instances : Owns(i)}) <= 1
  /\ fileExists <=> \E i \in Instances : Owns(i)
  /\ \A i \in Instances : Owns(i) => creator = i

\* the release() of t3 has closed the descriptor and not yet removed the
\* file: the file exists, no instance is locked, and t1 waits for the path
C21_Witness ==
  /\ pc["t3"] = "r_remove"
  /\ fileExists
  /\ LockedInstances = {}
  /\ pc["t1"] = "a_sleep"

\* C22: with no out-of-band change, the lock file is removed only by the
\* os.remove() of a release() whose instance created the file and held its
\* descriptor when that release() began; no other instance is locked then,
\* and a release() goes as far as os.remove() only on a locked instance.
C22_DeleteOnlyOwned ==
  [][/\ (fileExists /\ ~fileExists')
          => \E t \in Callers :
               /\ pc[t] = "r_remove"
               /\ pc'[t] # "r_remove"
               /\ creator = instOf[t]
               /\ \A j \in Instances \ {instOf[t]} : ~isLocked(j)
     /\ \A t \in Callers :
          (pc[t] # "r_remove" /\ pc'[t] = "r_remove")
            => (isLocked(instOf[t]) /\ creator = instOf[t] /\ fileExists)]_vars

\* a forced release() is running on L1, which is unlocked and owns nothing,
\* while L2 holds the file it created
C22_Witness ==
  /\ pc["t1"] = "r_start"
  /\ force["t1"]
  /\ ~isLocked("L1")
  /\ lockCount["L1"] = 0
  /\ isLocked("L2")
  /\ creator = "L2"

\* C23 as stated: after a failed create attempt acquire() sleeps first and
\* compares the elapsed time with the timeout after the sleep, so Timeout is
\* decided only as a sleep returns.
C23_Original ==
  [][\A t \in Callers :
       (pc[t] # "a_exc" /\ pc'[t] = "a_exc") => pc[t] = "a_sleep"]_vars

\* C23, amended: after a failed create attempt acquire() compares the elapsed
\* time with the timeout at once: if it is exceeded Timeout is decided with no
\* sleep, otherwise acquire() sleeps pollInterval and, when the sleep returns,
\* attempts the create again with no further look at the time.  On the
\* Timeout path lockCount is lowered by one, not below zero, as the error
\* leaves acquire().
C23_Amended ==
  [][\A t \in Callers :
       LET i == instOf[t] IN
       pc'[t] # pc[t]
         => /\ (pc[t] = "a_check" /\ ~isLocked(i))
                 => IF timeout[t] >= 0 /\ elapsed[t] > timeout[t]
                    THEN pc'[t] = "a_exc" /\ sleepLeft'[t] = sleepLeft[t]
                    ELSE pc'[t] = "a_sleep" /\ sleepLeft'[t] = PollInterval
            /\ pc[t] = "a_sleep"
                 => (sleepLeft[t] = 0 /\ pc'[t] = "a_try")
            /\ pc[t] = "a_exc"
                 => /\ pc'[t] = "idle"
                    /\ exc'[t] = "Timeout"
                    /\ lockCount'[i] = IF lockCount[i] > 0 THEN lockCount[i] - 1 ELSE 0]_vars

\* the timeout of t3's call has passed during its sleep, the sleep is over,
\* and the call goes on to another create attempt while L1 holds the path
C23_Witness ==
  /\ pc["t3"] = "a_sleep"
  /\ sleepLeft["t3"] = 0
  /\ timeout["t3"] >= 0
  /\ elapsed["t3"] > timeout["t3"]
  /\ isLocked("L1")

\* Worker t is between two `with` blocks, after any number of completed ones.
BetweenCycles(t) == pc[t] = "idle" /\ ctx[t] = 0 /\ exc[t] = None

\* C24: after any number of completed acquire()/release() cycles of its only
\* caller an instance is as it was built: lockCount 0, no descriptor, mutex
\* free, no file of its making on disk; and when every instance of the path
\* is in that state, or has given up, the path is free, so that the next
\* exclusive create that no I/O error strikes succeeds.
C24_ReusableCycle ==
  /\ \A t \in Workers :
       BetweenCycles(t)
         => /\ lockCount[instOf[t]] = 0
            /\ fd[instOf[t]] = None
            /\ mutex[instOf[t]] = None
            /\ creator # instOf[t]
  /\ (\A t \in Workers : BetweenCycles(t) \/ pc[t] = "failed")
       => (~fileExists /\ OsOpenSucceeds(FALSE))

\* t3 has completed all its cycles, t4 one at least, t1 has given up after a
\* Timeout, and nobody is inside a call
C24_Witness ==
  /\ BetweenCycles("t3")
  /\ cycles["t3"] = NumCycles
  /\ BetweenCycles("t4")
  /\ cycles["t4"] >= 1
  /\ pc["t1"] = "failed"

\* C25: a release() with no matching acquire() by its caller returns without
\* raising and leaves lockCount, the descriptor and the lock file as they are,
\* also while another thread sharing the instance holds the lock.
C25_OverReleaseNoOp ==
  [][(pc[Unpaired] \in {"r_start", "r_remove"} /\ pc'[Unpaired] # pc[Unpaired])
       => /\ pc'[Unpaired] = "idle"
          /\ exc'[Unpaired] = None
          /\ UNCHANGED <<lockCount, fd, fileExists, creator>>]_vars

\* C26 as stated: Timeout is decided only with the elapsed time strictly
\* greater than the effective timeout, and only directly after a pass in
\* which this call's create attempt failed.
C26_Original ==
  [][\A t \in Sharers :
       (pc[t] # "a_exc" /\ pc'[t] = "a_exc")
         => /\ timeout[t] >= 0
            /\ elapsed[t] > timeout[t]
            /\ opened[t]]_vars

\* C26, amended: Timeout is decided only at the test of line 113, with the
\* instance found unlocked and the elapsed time strictly greater than the
\* effective timeout; it follows a failed create attempt of the same pass
\* unless a release() by another thread has unlocked the instance during the
\* call.
C26_Amended ==
  [][\A t \in Sharers :
       (pc[t] # "a_exc" /\ pc'[t] = "a_exc")
         => /\ pc[t] = "a_check"
            /\ ~isLocked(instOf[t])
            /\ timeout[t] >= 0
            /\ elapsed[t] > timeout[t]
            /\ ~released[t] => opened[t]]_vars

\* Timeout is decided in the call of t2 although its last pass made no create
\* attempt: the instance was locked at line 106 and a release() has unlocked
\* it before line 110
C26_Witness ==
  /\ pc[Unpaired] = "a_exc"
  /\ ~opened[Unpaired]
  /\ released[Unpaired]
  /\ ~isLocked("L1")

\* C27: acquire(timeout=0) runs with the default timeout, as acquire() with
\* no timeout does; every other explicit timeout, positive or negative, is
\* used as given; and the timeout of a running call does not change, so a
\* call made with 0 gives up only once the default timeout has passed.
C27_ZeroMeansDefault ==
  [][\A t \in SoleUsers :
       /\ \A arg \in TimeoutArgs :
            CallAcquire(t, arg)
              => timeout'[t] = IF arg = Omitted \/ arg = Given(0)
                               THEN DefaultTimeout
                               ELSE arg.value
       /\ (InAcquire(t) /\ InAcquire(t)') => timeout'[t] = timeout[t]
       /\ (pc[t] # "a_exc" /\ pc'[t] = "a_exc" /\ timeout[t] = DefaultTimeout)
            => elapsed[t] > DefaultTimeout]_vars

\* a call of t3 running with the default timeout has failed its first
\* attempt, time has passed, and it sleeps on while L3 holds the path
C27_Witness ==
  /\ pc["t3"] = "a_sleep"
  /\ timeout["t3"] = DefaultTimeout
  /\ elapsed["t3"] > 0
  /\ elapsed["t3"] <= DefaultTimeout
  /\ isLocked("L3")

\* Waiter t is inside acquire() with a negative timeout.
Polling(t) == InAcquire(t) /\ timeout[t] < 0

\* C28: when the holder eventually releases the path and one other instance
\* alone is polling with a negative timeout (the second waiter stays out),
\* that waiter eventually returns from acquire() with its instance locked.
C28_WaiterProgress ==
  \A w \in Waiters :
    [](\A o \in Waiters \ {w} : pc[o] = "idle" /\ lockCount[instOf[o]] = 0)
      => (Polling(w) ~> (pc[w] = "idle" /\ exc[w] = None /\ isLocked(instOf[w])))

\* with two waiters polling while the holder held the path, t1 is the one
\* that has the lock after the holder's release, and t4 polls on
C28_Witness ==
  /\ cycles[Holder] >= 1
  /\ ~isLocked(instOf[Holder])
  /\ pc["t1"] = "idle"
  /\ isLocked("L1")
  /\ Polling("t4")
  /\ pc["t4"] = "a_sleep"

\* b to the power e
RECURSIVE Pow(_, _)
Pow(b, e) == IF e = 0 THEN 1 ELSE b * Pow(b, e - 1)

\* C29: in a call of a retry-decorated function with maxAttempts >= 1 the
\* function is called at most maxAttempts times; every call before the last
\* one made has raised targetException, and a call that does not raise it ends
\* the wrapper with that call's result (its value returned, its exception
\* propagating); when the call has ended on targetException, all maxAttempts
\* calls have raised it and defaultValue is returned; the i-th sleep lasts
\* delaySeconds * multiplier^(i-1), one sleep follows each failed call but the
\* maxAttempts-th, and none follows the last attempt.
C29_RetryAttemptBound ==
  LET w == wrapped
      n == Len(w.outcomes)
  IN (w.pc # "idle" /\ w.maxAttempts >= 1) =>
       /\ n <= w.maxAttempts
       /\ \A j \in 1..(n - 1) : w.outcomes[j] = "targetException"
       /\ w.pc = "loop" =>
            /\ n < w.maxAttempts
            /\ \A j \in 1..n : w.outcomes[j] = "targetException"
            /\ Len(w.slept) = n
       /\ w.pc = "done" =>
            /\ n >= 1
            /\ w.outcomes[n] = "returns" => w.result = "value"
            /\ w.outcomes[n] = "otherException" => w.result = "raised"
            /\ w.outcomes[n] = "targetException" =>
                 n = w.maxAttempts /\ w.result = "defaultValue"
            /\ Len(w.slept) = n - 1
       /\ Len(w.slept) <= w.maxAttempts - 1
       /\ \A j \in 1..Len(w.slept) : w.slept[j] = w.delaySeconds * Pow(w.multiplier, j - 1)

\* retry(maxAttempts=3, delaySeconds=2, multiplier=3): all three calls have
\* raised targetException, the wrapper has slept 2 and 6 seconds and it
\* returns defaultValue
C29_Witness ==
  /\ wrapped.pc = "done"
  /\ wrapped.maxAttempts = 3
  /\ wrapped.outcomes = <<"targetException", "targetException", "targetException">>
  /\ wrapped.slept = <<2, 6>>
  /\ wrapped.result = "defaultValue"

\* The descriptors of the lock file that instance i has open: the one in
\* __lockFileFileDescriptor, and the one each of its threads has got from
\* os.open() (line 149) and not yet assigned (line 153).
OpenDescriptors(i) ==
  (IF fd[i] # None THEN 1 ELSE 0)
    + Cardinality({t \in Threads : instOf[t] = i /\ pc[t] = "a_set"})

\* C30: in every reachable state, also when the lock file is deleted out of
\* band, an instance has at most one descriptor of the lock file open; a
\* thread whose os.open() has created the file holds the instance's mutex,
\* and the instance's descriptor is absent, so the assignment that follows
\* overwrites no descriptor.
C30_SingleDescriptor ==
  /\ \A i \in Instances : OpenDescriptors(i) <= 1
  /\ \A t \in Threads :
       pc[t] = "a_set" => fd[instOf[t]] = None /\ mutex[instOf[t]] = t

\* t1 has created the file and not yet assigned the descriptor, the file has
\* been deleted out of band, and t2, in acquire() on the same instance, is
\* about to enter the mutex block: a create by t2 would succeed
C30_Witness ==
  /\ pc["t1"] = "a_set"
  /\ mutex["L1"] = "t1"
  /\ ~fileExists
  /\ pc["t2"] = "a_try"
=============================================================================
